---- MODULE Spec2Model ----
(***************************************************************************)
(* spiketools: the kinematics pipeline (spatial/position.py) and the       *)
(* spatial information estimator (spatial/information.py).                 *)
(*                                                                         *)
(* The functions are pure; every action below is one call of one function  *)
(* on inputs drawn from bounded sets, and records the inputs and the       *)
(* outcome (a value or a raised exception) in the state.                   *)
(*                                                                         *)
(* Floating point numbers are modelled as binary fixed-point numbers with  *)
(* FracBits fractional bits, extended with NaN and the two infinities,     *)
(* with the IEEE-754 rules for the special values (x/0, 0/0, 0*inf,        *)
(* inf-inf, log2(0), NaN propagation, NaN # 0).                            *)
(***************************************************************************)
EXTENDS Integers, Sequences, FiniteSets, TLC

\* ------------------------------------------------------------------ bounds
MaxN == 3          \* most samples in a position sequence
MaxCoord == 2      \* 1D coordinates are 0..MaxCoord
MaxTime == 1       \* bin_times entries are 0..MaxTime
MaxBins == 3       \* most bins in a spike / occupancy map
MaxSpike == 2      \* spike counts are 0..MaxSpike
MaxOcc == 2        \* occupancy values are 0..MaxOcc, or NaN
FracBits == 8      \* fractional bits of the fixed-point model of a float

Scale == 2 ^ FracBits

\* ------------------------------------------------------------------ floats
Fin(v) == [k |-> "fin", v |-> v]
NaN == [k |-> "nan", v |-> 0]
PInf == [k |-> "pinf", v |-> 0]
NInf == [k |-> "ninf", v |-> 0]

FromInt(i) == Fin(i * Scale)

IsNaN(a) == a.k = "nan"
IsInf(a) == a.k \in {"pinf", "ninf"}
IsFinite(a) == a.k = "fin"
IsZero(a) == a.k = "fin" /\ a.v = 0

\* The sign of a float that is not NaN: -1, 0 or 1.
Sign(a) ==
  CASE a.k = "pinf" -> 1
    [] a.k = "ninf" -> -1
    [] OTHER -> IF a.v > 0 THEN 1 ELSE IF a.v < 0 THEN -1 ELSE 0

InfOfSign(s) == IF s > 0 THEN PInf ELSE NInf

FAdd(a, b) ==
  CASE IsNaN(a) \/ IsNaN(b) -> NaN
    [] IsInf(a) /\ IsInf(b) -> IF a.k = b.k THEN a ELSE NaN
    [] IsInf(a) -> a
    [] IsInf(b) -> b
    [] OTHER -> Fin(a.v + b.v)

FMul(a, b) ==
  CASE IsNaN(a) \/ IsNaN(b) -> NaN
    [] IsInf(a) \/ IsInf(b) ->
         IF Sign(a) * Sign(b) = 0 THEN NaN ELSE InfOfSign(Sign(a) * Sign(b))
    [] OTHER -> Fin((a.v * b.v) \div Scale)

\* Float division with numpy's semantics: x/0 is +-inf, 0/0 is NaN (a
\* RuntimeWarning, not an exception).
FDiv(a, b) ==
  CASE IsNaN(a) \/ IsNaN(b) -> NaN
    [] IsInf(a) /\ IsInf(b) -> NaN
    [] IsInf(a) -> IF Sign(b) < 0 THEN InfOfSign(-Sign(a)) ELSE a
    [] IsInf(b) -> Fin(0)
    [] b.v = 0 -> IF a.v = 0 THEN NaN ELSE InfOfSign(Sign(a))
    [] OTHER -> Fin((a.v * Scale) \div b.v)

\* floor(sqrt(x)) for x >= 0, by bisection on lo <= sqrt(x) < hi.
RECURSIVE ISqrtBetween(_, _, _)
ISqrtBetween(x, lo, hi) ==
  IF hi - lo <= 1 THEN lo
  ELSE LET mid == (lo + hi) \div 2
       IN IF mid * mid <= x THEN ISqrtBetween(x, mid, hi)
          ELSE ISqrtBetween(x, lo, mid)

\* The square root of the integer k >= 0, as a float: sqrt(k) * Scale lies in
\* 0 .. k * Scale.
FSqrtInt(k) == Fin(ISqrtBetween(k * Scale * Scale, 0, k * Scale + 1))

\* log2 of the fixed-point value v > 0: the characteristic by halving or
\* doubling into [1, 2), then one mantissa bit per squaring.
RECURSIVE Log2Char(_, _)
Log2Char(v, e) ==
  IF v >= 2 * Scale THEN Log2Char(v \div 2, e + 1)
  ELSE IF v < Scale THEN Log2Char(v * 2, e - 1)
  ELSE <<v, e>>

RECURSIVE Log2Frac(_, _, _)
Log2Frac(m, bit, acc) ==
  IF bit = 0 THEN acc
  ELSE LET sq == (m * m) \div Scale
       IN IF sq >= 2 * Scale THEN Log2Frac(sq \div 2, bit \div 2, acc + bit)
          ELSE Log2Frac(sq, bit \div 2, acc)

FLog2(a) ==
  CASE IsNaN(a) -> NaN
    [] a.k = "pinf" -> PInf
    [] a.k = "ninf" -> NaN
    [] a.v < 0 -> NaN
    [] a.v = 0 -> NInf
    [] OTHER -> LET ce == Log2Char(a.v, 0)
                IN Fin(ce[2] * Scale + Log2Frac(ce[1], Scale \div 2, 0))

\* All sequences over S of length 0..n.
SeqsUpTo(S, n) == UNION {[1..m -> S] : m \in 0..n}

\* ------------------------------------------------------------------ arrays
\* A numpy array of 1 or 2 dimensions: its shape, and its entries (ndim = 1) or
\* its rows (ndim = 2). A 2D array of shape (0, c) has no row and keeps its c.
Vector(xs) == [ndim |-> 1, shape |-> <<Len(xs)>>, data |-> xs]
Matrix(r, c, rows) == [ndim |-> 2, shape |-> <<r, c>>, data |-> rows]

\* arr.T
Transpose(arr) ==
  IF arr.ndim = 1 THEN arr
  ELSE Matrix(arr.shape[2], arr.shape[1],
              [j \in 1..arr.shape[2] |-> [i \in 1..arr.shape[1] |-> arr.data[i][j]]])

\* len(arr)
ArrayLen(arr) == arr.shape[1]

\* What iterating over arr yields: its entries (each a 0-d value, held here as
\* a one-entry point) or its rows.
Items(arr) ==
  IF arr.ndim = 1 THEN [i \in 1..Len(arr.data) |-> <<arr.data[i]>>] ELSE arr.data

\* spiketools.utils.checks.check_array_orientation: 'vector' for a 1D array;
\* for a 2D array the shorter axis is the dimension axis, so 'row' (one row per
\* dimension) when there are fewer rows than columns and 'column' when there
\* are more. Axes of equal length leave the layout undetermined: tie is the
\* answer given then.
check_array_orientation(arr, tie) ==
  IF arr.ndim = 1 THEN "vector"
  ELSE IF arr.shape[1] < arr.shape[2] THEN "row"
  ELSE IF arr.shape[1] > arr.shape[2] THEN "column"
  ELSE tie

\* The orientation check dropped: the array is used as passed.
Oriented_AsPassed(position, tie) == position

\* position.T if check_array_orientation(position) == 'row' else position
Oriented(position, tie) ==
  IF check_array_orientation(position, tie) = "row" THEN Transpose(position)
  ELSE position

\* ------------------------------------------------------------------ outcomes
\* A call returns a value or raises an exception.
Ok(v) == [status |-> "ok", err |-> "none", value |-> v]
Raise(e) == [status |-> "error", err |-> e, value |-> <<>>]
NoCall == [status |-> "none", err |-> "none", value |-> <<>>]

\* numpy broadcasting of two 1D operands of lengths a and b: they combine when
\* the lengths are equal or either is 1.
Broadcastable(a, b) == a = b \/ a = 1 \/ b = 1
BroadcastLen(a, b) == IF a = 1 THEN b ELSE a
\* Entry i of an operand of length n, stretched when n = 1.
Stretch(xs, i) == IF Len(xs) = 1 THEN xs[1] ELSE xs[i]

\* ------------------------------------------------------------------ position.py
RECURSIVE SumSquares(_, _, _)
SumSquares(p1, p2, i) ==
  IF i = 0 THEN 0
  ELSE LET d == Stretch(p1, i) - Stretch(p2, i)
       IN SumSquares(p1, p2, i - 1) + d * d

\* compute_distance: np.linalg.norm(np.array(p1) - np.array(p2)), for two points
\* whose lengths broadcast.
compute_distance(p1, p2) ==
  FSqrtInt(SumSquares(p1, p2, BroadcastLen(Len(p1), Len(p2))))

\* compute_distances pairing every item with itself instead of with its successor.
compute_distances_SamePair(position, tie) ==
  LET pos == Oriented(position, tie)
      n == ArrayLen(pos)
      items == Items(pos)
  IN IF n - 1 < 0 THEN Raise("ValueError")
     ELSE Ok([ix \in 1..(n - 1) |-> compute_distance(items[ix], items[ix])])

\* np.zeros(len(position) - 1) raises ValueError for an empty position.
compute_distances(position, tie) ==
  LET pos == Oriented(position, tie)
      n == ArrayLen(pos)
      items == Items(pos)
  IN IF n - 1 < 0 THEN Raise("ValueError")
     ELSE Ok([ix \in 1..(n - 1) |-> compute_distance(items[ix], items[ix + 1])])

\* A running sum that starts from 0: one entry more than xs.
RECURSIVE CumSumFromZero(_)
CumSumFromZero(xs) ==
  IF Len(xs) = 0 THEN <<Fin(0)>>
  ELSE LET init == CumSumFromZero(SubSeq(xs, 1, Len(xs) - 1))
       IN Append(init, FAdd(init[Len(init)], xs[Len(xs)]))

\* np.cumsum: entry k is entry k-1 plus xs[k].
RECURSIVE CumSum(_)
CumSum(xs) ==
  IF Len(xs) = 0 THEN <<>>
  ELSE LET init == CumSum(SubSeq(xs, 1, Len(xs) - 1))
       IN Append(init, IF Len(init) = 0 THEN xs[1]
                       ELSE FAdd(init[Len(init)], xs[Len(xs)]))

\* compute_cumulative_distances returning the distances themselves.
compute_cumulative_distances_NoSum(position, tie) ==
  compute_distances(position, tie)

compute_cumulative_distances(position, tie) ==
  LET d == compute_distances(position, tie)
  IN IF d.status = "error" THEN d ELSE Ok(CumSum(d.value))

compute_distances_to_location(position, tie, location) ==
  LET pos == Oriented(position, tie)
      n == ArrayLen(pos)
      items == Items(pos)
  IN IF \E ix \in 1..n : ~Broadcastable(Len(items[ix]), Len(location))
     THEN Raise("ValueError")
     ELSE Ok([ix \in 1..n |-> compute_distance(items[ix], location)])

\* bin_times is a 1D array, or a scalar (scalar = TRUE, one entry).
BinTimes(scalar, xs) == [scalar |-> scalar, data |-> xs]

\* distances / bin_times, with numpy's broadcasting and float division.
compute_speed(position, tie, bin_times) ==
  LET d == compute_distances(position, tie)
      a == Len(d.value)
      b == Len(bin_times.data)
  IN IF d.status = "error" THEN d
     ELSE IF ~Broadcastable(a, b) THEN Raise("ValueError")
     ELSE Ok([i \in 1..BroadcastLen(a, b) |->
                FDiv(Stretch(d.value, i), FromInt(Stretch(bin_times.data, i)))])

\* ------------------------------------------------------------------ information.py
\* np.nansum: the sum with every NaN entry taken as 0 (0.0 for no entry).
RECURSIVE nansum(_)
nansum(xs) ==
  IF Len(xs) = 0 THEN Fin(0)
  ELSE FAdd(nansum(SubSeq(xs, 1, Len(xs) - 1)),
            IF IsNaN(xs[Len(xs)]) THEN Fin(0) ELSE xs[Len(xs)])

\* np.nonzero of a 1D array: the indices of the entries that are not 0, in
\* order. NaN and the infinities are not 0.
nonzero(xs) == SelectSeq([i \in 1..Len(xs) |-> i], LAMBDA i : ~IsZero(xs[i]))

\* spike_map / occupancy, elementwise over the broadcast shape.
spike_map_norm(spikes, occ) ==
  [i \in 1..BroadcastLen(Len(spikes), Len(occ)) |->
     FDiv(Stretch(spikes, i), Stretch(occ, i))]

\* occ_prob[nz] * spike_map_norm[nz] * np.log2(spike_map_norm[nz] / rate)
InfoTerms(occ_prob, norm, nz, rate) ==
  [j \in 1..Len(nz) |->
     FMul(FMul(occ_prob[nz[j]], norm[nz[j]]), FLog2(FDiv(norm[nz[j]], rate)))]

\* _compute_spatial_information without the rate == 0.0 return.
compute_spatial_information_NoZeroRate(spikes, occ) ==
  LET rate == FDiv(nansum(spikes), nansum(occ))
      occ_prob == [i \in 1..Len(occ) |-> FDiv(occ[i], nansum(occ))]
      norm == spike_map_norm(spikes, occ)
      nz == nonzero(norm)
  IN IF ~Broadcastable(Len(spikes), Len(occ)) THEN Raise("ValueError")
     ELSE IF \E j \in 1..Len(nz) : nz[j] > Len(occ_prob) THEN Raise("IndexError")
     ELSE Ok(<<FDiv(nansum(InfoTerms(occ_prob, norm, nz, rate)), rate)>>)

\* _compute_spatial_information summing every bin: no nonzero mask, np.sum for
\* np.nansum.
RECURSIVE PlainSum(_)
PlainSum(xs) ==
  IF Len(xs) = 0 THEN Fin(0)
  ELSE FAdd(PlainSum(SubSeq(xs, 1, Len(xs) - 1)), xs[Len(xs)])

compute_spatial_information_Unmasked(spikes, occ) ==
  LET rate == FDiv(nansum(spikes), nansum(occ))
      occ_prob == [i \in 1..Len(occ) |-> FDiv(occ[i], nansum(occ))]
      norm == spike_map_norm(spikes, occ)
      all == [i \in 1..Len(norm) |-> i]
  IN IF IsZero(rate) THEN Ok(<<Fin(0)>>)
     ELSE IF ~Broadcastable(Len(spikes), Len(occ)) THEN Raise("ValueError")
     ELSE IF Len(norm) > Len(occ_prob) THEN Raise("IndexError")
     ELSE Ok(<<FDiv(PlainSum(InfoTerms(occ_prob, norm, all, rate)), rate)>>)

\* _compute_spatial_information: the result is a scalar, held as a one-entry
\* value. The division of two maps whose shapes do not broadcast raises
\* ValueError; indexing occ_prob with an index of the broader spike_map_norm
\* raises IndexError.
_compute_spatial_information(spikes, occ) ==
  LET rate == FDiv(nansum(spikes), nansum(occ))
      occ_prob == [i \in 1..Len(occ) |-> FDiv(occ[i], nansum(occ))]
      norm == spike_map_norm(spikes, occ)
      nz == nonzero(norm)
  IN IF IsZero(rate) THEN Ok(<<Fin(0)>>)
     ELSE IF ~Broadcastable(Len(spikes), Len(occ)) THEN Raise("ValueError")
     ELSE IF \E j \in 1..Len(nz) : nz[j] > Len(occ_prob) THEN Raise("IndexError")
     ELSE Ok(<<FDiv(nansum(InfoTerms(occ_prob, norm, nz, rate)), rate)>>)

\* ------------------------------------------------------------------ state
VARIABLES
  op,          \* the function called
  pc,          \* "call": the arguments are bound; "done": the call has ended
  samples,     \* the position sequence the caller holds: one point per sample
  layout,      \* how the caller lays it out as an array
  position,    \* the array passed as `position`
  tie,         \* check_array_orientation's answer for a square array
  location,    \* the `location` argument of compute_distances_to_location
  bin_times,   \* the `bin_times` argument of compute_speed
  spike_map,   \* the `spike_map` argument of _compute_spatial_information
  occupancy,   \* its `occupancy` argument
  result       \* the outcome of the call

vars == <<op, pc, samples, layout, position, tie, location, bin_times,
          spike_map, occupancy, result>>
argVars == <<op, samples, layout, position, tie, location, bin_times,
             spike_map, occupancy>>

\* ------------------------------------------------------------------ inputs
Points1D == {<<c>> : c \in 0..MaxCoord}
Points2D == {<<0, 0>>, <<1, 0>>, <<1, 1>>, <<2, 1>>}

\* "vector": a 1D array of n coordinates; "sample_major": shape (n, 2), one row
\* per sample; "dimension_major": shape (2, n), one row per dimension.
Layouts2D == {"sample_major", "dimension_major"}

ToArray(s, l) ==
  CASE l = "vector" -> Vector([i \in 1..Len(s) |-> s[i][1]])
    [] l = "sample_major" -> Matrix(Len(s), 2, s)
    [] l = "dimension_major" -> Transpose(Matrix(Len(s), 2, s))

\* The (samples, layout) pairs a caller passes.
PositionInputs ==
  (SeqsUpTo(Points1D, MaxN) \X {"vector"}) \cup (SeqsUpTo(Points2D, MaxN) \X Layouts2D)

Ties == {"row", "column"}

\* A location of the samples' dimensionality.
LocationInputs(l) == IF l = "vector" THEN Points1D ELSE Points2D

BinTimesInputs ==
  {BinTimes(FALSE, xs) : xs \in SeqsUpTo(0..MaxTime, MaxN - 1)}
    \cup {BinTimes(TRUE, <<t>>) : t \in 0..MaxTime}

NoBinTimes == BinTimes(FALSE, <<>>)

PositionOps == {"compute_distances", "compute_cumulative_distances",
                "compute_distances_to_location", "compute_speed"}

\* A caller about to call one function of position.py.
InitPosition ==
  /\ pc = "call"
  /\ result = NoCall
  /\ op \in PositionOps
  /\ \E in \in PositionInputs :
       /\ samples = in[1]
       /\ layout = in[2]
       /\ position = ToArray(in[1], in[2])
       /\ location \in IF op = "compute_distances_to_location"
                       THEN LocationInputs(in[2]) ELSE {<<>>}
  /\ tie \in Ties
  /\ bin_times \in IF op = "compute_speed" THEN BinTimesInputs ELSE {NoBinTimes}
  /\ spike_map = <<>>
  /\ occupancy = <<>>

\* A spike map holds counts; an occupancy map holds durations, with NaN for a
\* masked bin.
SpikeMapInputs == {[i \in DOMAIN xs |-> FromInt(xs[i])] : xs \in SeqsUpTo(0..MaxSpike, MaxBins)}
OccupancyValues == {FromInt(o) : o \in 0..MaxOcc} \cup {NaN}
OccupancyInputs == SeqsUpTo(OccupancyValues, MaxBins)

\* A caller about to call _compute_spatial_information.
InitInformation ==
  /\ pc = "call"
  /\ result = NoCall
  /\ op = "_compute_spatial_information"
  /\ samples = <<>>
  /\ layout = "vector"
  /\ position = Vector(<<>>)
  /\ tie = "column"
  /\ location = <<>>
  /\ bin_times = NoBinTimes
  /\ spike_map \in SpikeMapInputs
  /\ occupancy \in OccupancyInputs

Init == InitPosition \/ InitInformation

\* ------------------------------------------------------------------ actions
Return(r) ==
  /\ pc' = "done"
  /\ result' = r
  /\ UNCHANGED argVars

CallComputeDistances ==
  /\ pc = "call" /\ op = "compute_distances"
  /\ Return(compute_distances(position, tie))

CallComputeCumulativeDistances ==
  /\ pc = "call" /\ op = "compute_cumulative_distances"
  /\ Return(compute_cumulative_distances(position, tie))

CallComputeDistancesToLocation ==
  /\ pc = "call" /\ op = "compute_distances_to_location"
  /\ Return(compute_distances_to_location(position, tie, location))

CallComputeSpeed ==
  /\ pc = "call" /\ op = "compute_speed"
  /\ Return(compute_speed(position, tie, bin_times))

NextPosition ==
  \/ CallComputeDistances
  \/ CallComputeCumulativeDistances
  \/ CallComputeDistancesToLocation
  \/ CallComputeSpeed

SpecPosition == InitPosition /\ [][NextPosition]_vars

CallComputeSpatialInformation ==
  /\ pc = "call" /\ op = "_compute_spatial_information"
  /\ Return(_compute_spatial_information(spike_map, occupancy))

NextInformation == CallComputeSpatialInformation

SpecInformation == InitInformation /\ [][NextInformation]_vars

Next == NextPosition \/ NextInformation

Spec == Init /\ [][Next]_vars

\* ------------------------------------------------------------------ claims: position.py
Done(f) == pc = "done" /\ op = f
NSamples == Len(samples)

\* The layout of the samples is resolved by shape alone: a 1D array, or a 2D
\* array with more samples than dimensions.
Resolved == layout = "vector" \/ NSamples >= 3

\* The sum of the first k entries of xs, added left to right.
RECURSIVE SumFirst(_, _)
SumFirst(xs, k) == IF k = 1 THEN xs[1] ELSE FAdd(SumFirst(xs, k - 1), xs[k])

\* r is the Euclidean distance between the points p and q of one dimensionality,
\* to the precision of the float model: r <= sqrt(sum of squares) < r + ulp.
RECURSIVE SquaredDistance(_, _)
SquaredDistance(p, q) ==
  IF Len(p) = 0 THEN 0
  ELSE (Head(p) - Head(q)) * (Head(p) - Head(q)) + SquaredDistance(Tail(p), Tail(q))

IsEuclidean(p, q, r) ==
  /\ IsFinite(r)
  /\ r.v >= 0
  /\ r.v * r.v <= SquaredDistance(p, q) * Scale * Scale
  /\ SquaredDistance(p, q) * Scale * Scale < (r.v + 1) * (r.v + 1)

DistancesOfSamples ==
  /\ result.status = "ok"
  /\ Len(result.value) = NSamples - 1
  /\ \A i \in 1..(NSamples - 1) :
       IsEuclidean(samples[i], samples[i + 1], result.value[i])

DistancesToLocationOfSamples ==
  /\ result.status = "ok"
  /\ Len(result.value) = NSamples
  /\ \A i \in 1..NSamples : IsEuclidean(samples[i], location, result.value[i])

\* C2 (as claimed): for every position sequence of n samples, compute_distances
\* returns n-1 entries, entry i the Euclidean distance between samples i and
\* i+1, and compute_distances_to_location returns n entries, entry i the
\* Euclidean distance between sample i and the location. It is stated here for
\* the sequences the data model admits (n >= 2) only.
C2_Original ==
  /\ (Done("compute_distances") /\ NSamples >= 2) => DistancesOfSamples
  /\ (Done("compute_distances_to_location") /\ NSamples >= 2) =>
       DistancesToLocationOfSamples

\* C2 (amended): the same, for every 1D sequence of n >= 1 samples and every 2D
\* sequence of n >= 3 samples in either layout.
C2_DistancesWhenResolved ==
  /\ (Done("compute_distances") /\ NSamples >= 1 /\ Resolved) => DistancesOfSamples
  /\ (Done("compute_distances_to_location") /\ NSamples >= 1 /\ Resolved) =>
       DistancesToLocationOfSamples

C2_Witness ==
  /\ Done("compute_distances")
  /\ layout = "dimension_major"
  /\ NSamples = 3
  /\ result.status = "ok"
  /\ result.value[1] # result.value[2]
  /\ result.value[2] # Fin(0)

\* The total distance travelled along the first k+1 samples is total: each
\* step adds the Euclidean distance between two consecutive samples.
IsPathLength(k, total) ==
  /\ IsFinite(total)
  /\ IF k = 1 THEN IsEuclidean(samples[1], samples[2], total)
     ELSE /\ IsFinite(result.value[k - 1])
          /\ IsEuclidean(samples[k], samples[k + 1],
                         Fin(total.v - result.value[k - 1].v))

C4_FewSamplesFail ==
  (Done("compute_distances") /\ NSamples < 2) => result.status = "error"

\* The length of compute_distances(position), when it returns.
NDistances == Len(compute_distances(position, tie).value)
LengthsMatch == ~bin_times.scalar /\ Len(bin_times.data) = NDistances

\* C5: compute_speed fails (ShapeMismatch; any raised exception is taken for
\* it) whenever bin_times is not a 1D array of the length of the distances, and
\* is distances[i] / bin_times[i] elementwise when it is. Stated for n >= 2 and
\* a bin_times of at least one entry.
C5_SpeedShapeChecked ==
  (Done("compute_speed") /\ NSamples >= 2 /\ Len(bin_times.data) >= 1) =>
    IF LengthsMatch
    THEN /\ result.status = "ok"
         /\ Len(result.value) = NDistances
         /\ \A i \in 1..NDistances :
              result.value[i] = FDiv(compute_distances(position, tie).value[i],
                                     FromInt(bin_times.data[i]))
    ELSE result.status = "error"

\* C6: at every index whose bin_times entry is 0, compute_speed fails or yields
\* an infinity, whatever the distance of the step: never NaN, never finite.
C6_ZeroDurationPolicy ==
  (Done("compute_speed") /\ result.status = "ok") =>
    \A i \in 1..Len(result.value) :
      Stretch(bin_times.data, i) = 0 => IsInf(result.value[i])

\* ------------------------------------------------------------------ claims: information.py
SameShape == Len(spike_map) = Len(occupancy)
AllZero(xs) == \A i \in 1..Len(xs) : IsZero(xs[i])
Positive(a) == a.k = "pinf" \/ (a.k = "fin" /\ a.v > 0)
TotalOccupancy == nansum(occupancy)
TotalSpikes == nansum(spike_map)

\* C7 (as claimed): an all-zero spike map gives exactly 0.0 for any occupancy
\* map of the same shape, one whose total is zero included.
C7_Original ==
  (Done("_compute_spatial_information") /\ SameShape /\ Len(spike_map) >= 1
     /\ AllZero(spike_map)) =>
    result = Ok(<<Fin(0)>>)

\* C7 (amended): an all-zero spike map gives exactly 0.0 for any occupancy map
\* of the same shape whose total, NaN entries ignored, is not zero (zeros and
\* NaN entries allowed); when that total is zero the result is NaN.
C7_ZeroSpikesZeroInformation ==
  (Done("_compute_spatial_information") /\ SameShape /\ AllZero(spike_map)) =>
    IF IsZero(TotalOccupancy) THEN result = Ok(<<NaN>>)
    ELSE result = Ok(<<Fin(0)>>)

C7_Witness ==
  /\ Done("_compute_spatial_information")
  /\ Len(spike_map) = 3
  /\ AllZero(spike_map)
  /\ occupancy = <<FromInt(0), NaN, FromInt(1)>>
  /\ result = Ok(<<Fin(0)>>)

\* C8: maps of different shapes make _compute_spatial_information fail
\* (ShapeMismatch; any raised exception is taken for it): none gives a number.
\* Stated for maps of at least one bin each and a positive total occupancy.
C8_ShapeMismatchFails ==
  (Done("_compute_spatial_information") /\ ~SameShape /\ Len(spike_map) >= 1
     /\ Len(occupancy) >= 1 /\ Positive(TotalOccupancy)) =>
    result.status = "error"

\* C9: with a total occupancy of zero and at least one spike, the call fails or
\* returns NaN: it returns no finite number.
C9_ZeroOccupancyNotMasked ==
  (Done("_compute_spatial_information") /\ SameShape /\ IsZero(TotalOccupancy)
     /\ ~AllZero(spike_map)) =>
    \/ result.status = "error"
    \/ result.status = "ok" /\ IsNaN(result.value[1])

\* The information sum taken, in bin order, over the bins 1..n that hold a
\* positive occupancy and a positive spike count.
BinTerm(i) ==
  LET rate == FDiv(TotalSpikes, TotalOccupancy)
      prob == FDiv(occupancy[i], TotalOccupancy)
      norm_rate == FDiv(spike_map[i], occupancy[i])
  IN FMul(FMul(prob, norm_rate), FLog2(FDiv(norm_rate, rate)))

RECURSIVE VisitedSum(_)
VisitedSum(n) ==
  IF n = 0 THEN Fin(0)
  ELSE IF Positive(occupancy[n]) /\ Positive(spike_map[n])
       THEN FAdd(VisitedSum(n - 1), BinTerm(n))
       ELSE VisitedSum(n - 1)

\* C10: for maps of one shape with a positive total occupancy and at least one
\* spike, the result is finite and is the sum over the bins with occupancy > 0
\* and spikes > 0 of occ_prob * norm_rate * log2(norm_rate / rate), divided by
\* rate: bins of zero or NaN occupancy add nothing.
C10_InformationOverVisitedBins ==
  (Done("_compute_spatial_information") /\ SameShape /\ Positive(TotalOccupancy)
     /\ Positive(TotalSpikes)) =>
    /\ result.status = "ok"
    /\ IsFinite(result.value[1])
    /\ result.value[1] =
         FDiv(VisitedSum(Len(spike_map)), FDiv(TotalSpikes, TotalOccupancy))

C10_Witness ==
  /\ Done("_compute_spatial_information")
  /\ spike_map = <<FromInt(1), FromInt(1), FromInt(2)>>
  /\ occupancy = <<FromInt(0), NaN, FromInt(2)>>
  /\ result.status = "ok"
  /\ IsFinite(result.value[1])
  /\ result.value[1].v # 0

\* ------------------------------------------------------------------ claims: orientation
Is2D == layout \in Layouts2D

\* The points a square array is read as: the caller's samples when the
\* heuristic picks the caller's layout, the rows of the transposed array when
\* it picks the other.
HeuristicMatchesLayout == (tie = "row") = (layout = "dimension_major")
SamplesAsRead ==
  IF HeuristicMatchesLayout THEN samples
  ELSE [j \in 1..2 |-> [i \in 1..NSamples |-> samples[i][j]]]

\* C11: for a 2D position of n > 2 samples the shorter axis is taken as the
\* dimension axis, so compute_distances and compute_distances_to_location give
\* on the array and on its transpose the same result, the distances between
\* consecutive samples (from each sample to the location); for a square array
\* (n = 2) the result is that of whichever layout the heuristic picks.
C11_OrientationResolved ==
  /\ (Done("compute_distances") /\ Is2D /\ NSamples > 2) =>
       /\ result = compute_distances(Transpose(position), tie)
       /\ DistancesOfSamples
  /\ (Done("compute_distances_to_location") /\ Is2D /\ NSamples > 2) =>
       /\ result = compute_distances_to_location(Transpose(position), tie, location)
       /\ DistancesToLocationOfSamples
  /\ (Done("compute_distances") /\ Is2D /\ NSamples = 2) =>
       /\ result.status = "ok"
       /\ Len(result.value) = 1
       /\ IsEuclidean(SamplesAsRead[1], SamplesAsRead[2], result.value[1])
       /\ result = compute_distances(Transpose(position),
                                     IF tie = "row" THEN "column" ELSE "row")

\* A (2, 3) array whose transposed reading would give other distances.
C11_Witness ==
  /\ Done("compute_distances")
  /\ layout = "dimension_major"
  /\ NSamples = 3
  /\ position.shape = <<2, 3>>
  /\ result.status = "ok"
  /\ result = compute_distances(Transpose(position), tie)
  /\ result.value # <<compute_distance(position.data[1], position.data[2])>>
  /\ result.value[1] # result.value[2]

\* A square array whose result changes with the axis the heuristic picks.
C11_AmbiguousWitness ==
  /\ Done("compute_distances")
  /\ Is2D
  /\ NSamples = 2
  /\ result # compute_distances(position, IF tie = "row" THEN "column" ELSE "row")

====
